---- MODULE Spec2Model ----
(***************************************************************************)
(* Pomodoro Visualizer CLI (scripts/pomodoro.py).                          *)
(*                                                                         *)
(* The persistent state is the SQLite database (tables sessions, tasks,    *)
(* config) and the marker file data/.current_session.json.  Every CLI      *)
(* invocation is one action: it runs init_db and then one cmd_* handler to *)
(* its end (or to the exception that ends the process).  Timestamps are    *)
(* milliseconds on one wall clock; a calendar date is a day index.         *)
(*                                                                         *)
(* Not modelled: cmd_week, cmd_export, the week/day layout of the heatmap  *)
(* grid, the created_at columns, and the texts of the printed messages.    *)
(***************************************************************************)
EXTENDS Integers, Sequences, FiniteSets

VARIABLES sessions, tasks, config, marker, clock, last

vars == <<sessions, tasks, config, marker, clock, last>>

---------------------------------------------------------------------------
(* Bounds of the model *)

MaxHalfMinutes == 3
MaxDay == 1
MaxTasks == 2
MaxGoal == 3
DaysInMonth == 2
MaxCompletedPerDay == 3
MaxOtherPerDay == 1

(* Constants of the program *)

DefaultDuration == 25
DefaultGoal == 8
bar_length == 20

MsPerSecond == 1000
MsPerMinute == 60 * MsPerSecond
MsPerHalfMinute == 30 * MsPerSecond
MsPerDay == 24 * 60 * MsPerMinute

---------------------------------------------------------------------------
(* Values *)

\* Python's None for an optional string argument or a NULL text column.
NoneStr == "<None>"

\* Python truthiness of an optional string: None and "" are falsy.
Truthy(s) == s # NoneStr /\ s # ""

\* A NULL integer column.
NullInt == 0 - 1

\* An id value: the text prefix ++ str(ms).  An SQL integer has prefix "".
IdValue(prefix, ms) == [prefix |-> prefix, ms |-> ms]

\* A NULL id (task_id = None).
NullId == IdValue("NULL", 0)

\* int(time.time() * 1000) read from the wall clock.
time_ms(now) == now

\* f"session_{int(time.time() * 1000)}"
generate_session_id(now) == IdValue("session_", time_ms(now))

\* f"task_{int(time.time() * 1000)}"
generate_task_id(now) == IdValue("task_", time_ms(now))

\* now.strftime("%Y-%m-%d"): the calendar day of a timestamp, as a day index.
DateOf(t) == t \div MsPerDay

\* The month ("%Y-%m" prefix) of a day index; the model's months all have
\* DaysInMonth days.
MonthOf(day) == day \div DaysInMonth

\* int(x / y) for integers: Python's int() truncates toward zero.
TruncDiv(x, y) == IF x >= 0 THEN x \div y ELSE 0 - ((0 - x) \div y)

\* The text stored under config key 'daily_goal': numeric text or other text.
GoalText(n) == [numeric |-> TRUE, n |-> n]
JunkText == [numeric |-> FALSE, n |-> 0]
NoValue == [numeric |-> FALSE, n |-> NullInt]

\* The marker file is absent.
NoMarker ==
    [exists |-> FALSE, id |-> NullId, start_time |-> NullInt, duration |-> 0,
     task_id |-> NullId, task_name |-> NoneStr]

RECURSIVE SumOver(_, _)
\* SUM(expr) over a set of rows, field f; NULL values are skipped by SQL.
SumOver(rows, f) ==
    IF rows = {} THEN 0
    ELSE LET r == CHOOSE x \in rows : TRUE
             v == IF f = "actual_duration" THEN r.actual_duration ELSE r.completed
         IN (IF v = NullInt THEN 0 ELSE v) + SumOver(rows \ {r}, f)

Min(a, b) == IF a <= b THEN a ELSE b

---------------------------------------------------------------------------
(* The datastore *)

\* The sessions row that cmd_start inserts; the other columns take their
\* defaults (end_time, actual_duration, interruption_reason NULL; completed 0).
NewSession(id, now, planned, task_id) ==
    [id |-> id, start_time |-> now, end_time |-> NullInt,
     planned_duration |-> planned, actual_duration |-> NullInt, completed |-> 0,
     task_id |-> task_id, interruption_reason |-> NoneStr, date |-> DateOf(now)]

\* The tasks row of INSERT INTO tasks (id, name): counters default to 0.
NewTask(id, name) ==
    [id |-> id, name |-> name, completed_pomodoros |-> 0, total_minutes |-> 0]

\* Variant: the id column declared TEXT PRIMARY KEY holds any id.
RowidAcceptsText(id) == TRUE

\* A column declared INTEGER PRIMARY KEY is the table's rowid: SQLite stores a
\* value there only if it is an integer or text that converts to one, and
\* otherwise fails the statement with "datatype mismatch".
RowidAccepts(id) == id.prefix = ""

\* INSERT INTO sessions (id, ...): sessions.id is INTEGER PRIMARY KEY.
InsertSession(rows, row) ==
    IF ~RowidAccepts(row.id) \/ (\E r \in rows : r.id = row.id)
    THEN [raised |-> "IntegrityError", rows |-> rows]
    ELSE [raised |-> "", rows |-> rows \cup {row}]

\* INSERT INTO tasks (id, name): tasks.id is TEXT PRIMARY KEY.
InsertTask(rows, row) ==
    IF \E r \in rows : r.id = row.id
    THEN [raised |-> "IntegrityError", rows |-> rows]
    ELSE [raised |-> "", rows |-> rows \cup {row}]

\* SELECT id FROM tasks WHERE name = ? ... fetchone(): the first match in
\* insertion order; task ids are time-derived, so the oldest match.
FirstTaskNamed(rows, name) ==
    LET found == {r \in rows : r.name = name}
    IN CHOOSE r \in found : \A q \in found : r.id.ms <= q.id.ms

\* int(goal_result[0]) if goal_result else 8; raises ValueError on other text.
ParseGoal(value) ==
    IF value = NoValue THEN [raised |-> "", n |-> DefaultGoal]
    ELSE IF value.numeric THEN [raised |-> "", n |-> value.n]
    ELSE [raised |-> "ValueError", n |-> 0]

---------------------------------------------------------------------------
(* The record of the last CLI invocation: its arguments, what it read from *)
(* the clock and the marker file, and what it printed or raised.           *)

NoReport ==
    [completed_count |-> 0, total_minutes |-> 0, interrupted_count |-> 0,
     interrupted_minutes |-> 0, daily_goal |-> 0, bar |-> <<>>,
     month |-> 0, marks |-> <<>>, legend |-> <<>>]

Call(cmd, now, had_marker) ==
    [cmd |-> cmd, now |-> now, had_marker |-> had_marker,
     task |-> NoneStr, duration |-> 0, reason |-> NoneStr, name |-> NoneStr,
     value |-> NoValue, session_id |-> NullId, raised |-> "",
     report |-> NoReport]

\* The database and the marker file as one value.
World ==
    [sessions |-> sessions, tasks |-> tasks, config |-> config,
     marker |-> marker, clock |-> clock]

---------------------------------------------------------------------------
(* The handlers, as functions from the persistent state W (and the        *)
(* arguments) to the persistent state they leave and the call's record.   *)

\* while remaining > 0: time.sleep(1); remaining -= 1 -- the time at which
\* the loop ends: one second per tick, `remaining` ticks.
Countdown(now, remaining) ==
    IF remaining > 0 THEN now + remaining * MsPerSecond ELSE now

\* Variant of cmd_complete without the UPDATE of the tasks table.
CompleteNoCredit(W) ==
    LET now == W.clock
        session == W.marker
        actual_duration == TruncDiv(now - session.start_time, MsPerMinute)
        call == Call("complete", now, session.exists)
    IN IF ~session.exists THEN [world |-> W, out |-> call]
       ELSE [world |->
                [W EXCEPT
                   !.sessions =
                       {IF r.id = session.id
                        THEN [r EXCEPT !.end_time = now,
                                       !.actual_duration = actual_duration,
                                       !.completed = 1]
                        ELSE r : r \in W.sessions},
                   !.marker = NoMarker],
             out |-> call]

\* cmd_complete: guard on the marker file, then UPDATE sessions, UPDATE
\* tasks, commit, unlink the marker.
Complete(W) ==
    LET now == W.clock
        session == W.marker
        actual_duration == TruncDiv(now - session.start_time, MsPerMinute)
        call == Call("complete", now, session.exists)
    IN IF ~session.exists THEN [world |-> W, out |-> call]
       ELSE [world |->
                [W EXCEPT
                   !.sessions =
                       {IF r.id = session.id
                        THEN [r EXCEPT !.end_time = now,
                                       !.actual_duration = actual_duration,
                                       !.completed = 1]
                        ELSE r : r \in W.sessions},
                   !.tasks =
                       IF session.task_id = NullId THEN W.tasks
                       ELSE {IF t.id = session.task_id
                             THEN [t EXCEPT
                                     !.completed_pomodoros = @ + 1,
                                     !.total_minutes = @ + actual_duration]
                             ELSE t : t \in W.tasks},
                   !.marker = NoMarker],
             out |-> call]

\* The UPDATE of cmd_interrupt on the sessions table.
InterruptedRows(W, reason) ==
    {IF r.id = W.marker.id
     THEN [r EXCEPT
             !.end_time = W.clock,
             !.actual_duration =
                 TruncDiv(W.clock - W.marker.start_time, MsPerMinute),
             !.completed = 0,
             !.interruption_reason = IF Truthy(reason) THEN reason ELSE "Unknown"]
     ELSE r : r \in W.sessions}

\* Variant of cmd_interrupt that also credits the task, as cmd_complete does.
InterruptCreditsTask(W, reason) ==
    LET call == [Call("interrupt", W.clock, W.marker.exists) EXCEPT !.reason = reason]
    IN IF ~W.marker.exists THEN [world |-> W, out |-> call]
       ELSE [world |->
                [W EXCEPT
                   !.sessions = InterruptedRows(W, reason),
                   !.tasks = {IF t.id = W.marker.task_id
                              THEN [t EXCEPT !.completed_pomodoros = @ + 1]
                              ELSE t : t \in W.tasks},
                   !.marker = NoMarker],
             out |-> call]

\* Variant of cmd_interrupt that does not unlink the marker file.
InterruptKeepsMarker(W, reason) ==
    LET call == [Call("interrupt", W.clock, W.marker.exists) EXCEPT !.reason = reason]
    IN IF ~W.marker.exists THEN [world |-> W, out |-> call]
       ELSE [world |-> [W EXCEPT !.sessions = InterruptedRows(W, reason)],
             out |-> call]

\* cmd_interrupt: guard on the marker file, then UPDATE sessions, commit,
\* unlink the marker.
Interrupt(W, reason) ==
    LET session == W.marker
        call == [Call("interrupt", W.clock, session.exists) EXCEPT !.reason = reason]
    IN IF ~session.exists THEN [world |-> W, out |-> call]
       ELSE [world |->
                [W EXCEPT
                   !.sessions = InterruptedRows(W, reason),
                   !.marker = NoMarker],
             out |-> call]

\* cmd_start: task lookup or insert, session insert, commit, marker write,
\* and for a positive duration the countdown and cmd_complete.  An exception
\* ends the process before the commit, so nothing of the call is kept.
Start(W, task, duration) ==
    LET now == W.clock
        session_id == generate_session_id(now)
        lookup == Truthy(task)
        known == lookup /\ (\E r \in W.tasks : r.name = task)
        task_id == IF ~lookup THEN NullId
                   ELSE IF known THEN FirstTaskNamed(W.tasks, task).id
                   ELSE generate_task_id(now)
        t1 == IF lookup /\ ~known
              THEN InsertTask(W.tasks, NewTask(task_id, task))
              ELSE [raised |-> "", rows |-> W.tasks]
        planned == IF duration # 0 THEN duration ELSE DefaultDuration
        s1 == InsertSession(W.sessions,
                            NewSession(session_id, now, planned, task_id))
        call == [Call("start", now, W.marker.exists) EXCEPT
                   !.task = task, !.duration = duration,
                   !.session_id = session_id]
        started ==
            [W EXCEPT
               !.sessions = s1.rows,
               !.tasks = t1.rows,
               !.marker = [exists |-> TRUE, id |-> session_id,
                           start_time |-> now, duration |-> planned,
                           task_id |-> task_id, task_name |-> task]]
    IN IF t1.raised # "" THEN [world |-> W, out |-> [call EXCEPT !.raised = t1.raised]]
       ELSE IF s1.raised # "" THEN [world |-> W, out |-> [call EXCEPT !.raised = s1.raised]]
       ELSE IF duration > 0
            THEN [world |->
                     Complete([started EXCEPT
                                 !.clock = Countdown(now, duration * 60)]).world,
                  out |-> call]
            ELSE [world |-> started, out |-> call]

\* Variant of cmd_task whose "add" does not check the name.
TaskCmdUnguarded(W, task_command, name) ==
    LET call == [Call(IF task_command = "add" THEN "task_add" ELSE "task_list",
                      W.clock, W.marker.exists) EXCEPT !.name = name]
        t1 == InsertTask(W.tasks, NewTask(generate_task_id(W.clock), name))
    IN IF task_command = "add" /\ t1.raised = ""
       THEN [world |-> [W EXCEPT !.tasks = t1.rows], out |-> call]
       ELSE [world |-> W, out |-> call]

\* cmd_task: "add" with its guard on the name, or "list" (a read).
TaskCmd(W, task_command, name) ==
    LET now == W.clock
        call == [Call(IF task_command = "add" THEN "task_add" ELSE "task_list",
                      now, W.marker.exists) EXCEPT
                   !.name = name]
        t1 == InsertTask(W.tasks, NewTask(generate_task_id(now), name))
    IN IF task_command = "add" /\ Truthy(name)
       THEN IF t1.raised # ""
            THEN [world |-> W, out |-> [call EXCEPT !.raised = t1.raised]]
            ELSE [world |-> [W EXCEPT !.tasks = t1.rows], out |-> call]
       ELSE [world |-> W, out |-> call]

\* cmd_config daily_goal: INSERT OR REPLACE when a value is given, else a read.
ConfigCmd(W, value) ==
    LET call == [Call("config", W.clock, W.marker.exists) EXCEPT !.value = value]
    IN IF value # NoValue
       THEN [world |-> [W EXCEPT !.config = value], out |-> call]
       ELSE [world |-> W, out |-> call]

\* Variant of the query without "AND completed = 1".
AnyStatusOn(rows, day) == {r \in rows : r.date = day}

\* The rows of "... FROM sessions WHERE date = ? AND completed = 1".
CompletedOn(rows, day) == {r \in rows : r.date = day /\ r.completed = 1}

\* The rows of "... WHERE date = ? AND completed = 0 AND interruption_reason
\* IS NOT NULL".
InterruptedOn(rows, day) ==
    {r \in rows : r.date = day /\ r.completed = 0
                  /\ r.interruption_reason # NoneStr}

\* progress = min(completed_count / daily_goal, 1.0);
\* filled = int(bar_length * progress), for daily_goal > 0: the quotient is
\* kept exact (completed_count over daily_goal, or 1).
Filled(completed_count, daily_goal) ==
    IF completed_count >= daily_goal THEN bar_length
    ELSE TruncDiv(bar_length * completed_count, daily_goal)

\* "█" * filled + "░" * (bar_length - filled); a negative count gives "".
Bar(filled) ==
    [i \in 1..filled |-> "full"] \o [i \in 1..(bar_length - filled) |-> "empty"]

\* cmd_today: the counts of today's rows, the goal and the progress bar.
Today(W) ==
    LET today == DateOf(W.clock)
        done == CompletedOn(W.sessions, today)
        broken == InterruptedOn(W.sessions, today)
        goal == ParseGoal(W.config)
        call == Call("today", W.clock, W.marker.exists)
        counts == [NoReport EXCEPT
                     !.completed_count = Cardinality(done),
                     !.total_minutes = SumOver(done, "actual_duration"),
                     !.interrupted_count = Cardinality(broken),
                     !.interrupted_minutes = SumOver(broken, "actual_duration"),
                     !.daily_goal = goal.n]
    IN IF goal.raised # ""
       THEN [world |-> W, out |-> [call EXCEPT !.raised = goal.raised]]
       ELSE IF goal.n = 0
       THEN [world |-> W,
             out |-> [call EXCEPT !.raised = "ZeroDivisionError", !.report = counts]]
       ELSE [world |-> W,
             out |-> [call EXCEPT
                        !.report = [counts EXCEPT
                           !.bar = Bar(Filled(counts.completed_count, goal.n))]]]

\* The marker of one in-month day of the heatmap: date_map holds the days of
\* the month with at least one completed session (GROUP BY date).
HeatmapMarker(rows, day, daily_goal) ==
    LET count == Cardinality(CompletedOn(rows, day))
    IN IF count = 0 THEN "no_session"
       ELSE IF count >= daily_goal THEN "goal_achieved"
       ELSE IF 2 * count >= daily_goal THEN "halfway"
       ELSE IF count > 0 THEN "started"
       ELSE "no_data"

\* The legend's three ranges: daily_goal+, daily_goal//2 .. daily_goal-1,
\* 1 .. daily_goal//2.
Legend(daily_goal) ==
    [goal_achieved_from |-> daily_goal,
     halfway_from |-> daily_goal \div 2, halfway_to |-> daily_goal - 1,
     started_from |-> 1, started_to |-> daily_goal \div 2]

\* cmd_heatmap: one marker per day of the month (args.month or the current
\* month), and the legend.
Heatmap(W, month_arg) ==
    LET month == IF month_arg = NullInt THEN MonthOf(DateOf(W.clock)) ELSE month_arg
        goal == ParseGoal(W.config)
        call == Call("heatmap", W.clock, W.marker.exists)
    IN IF goal.raised # ""
       THEN [world |-> W, out |-> [call EXCEPT !.raised = goal.raised]]
       ELSE [world |-> W,
             out |-> [call EXCEPT
                        !.report = [NoReport EXCEPT
                           !.daily_goal = goal.n,
                           !.month = month,
                           !.marks = [d \in 1..DaysInMonth |->
                                        HeatmapMarker(W.sessions,
                                            month * DaysInMonth + d - 1, goal.n)],
                           !.legend = Legend(goal.n)]]]

---------------------------------------------------------------------------
(* Arguments of the invocations *)

TaskArgs == {NoneStr, "A", "B"}
NameArgs == {NoneStr, "", "A", "B"}
DurationArgs == {0, 1, DefaultDuration}
ReasonArgs == {NoneStr, "", "phone"}
ValueArgs == {NoValue, JunkText} \cup {GoalText(n) : n \in 0..MaxGoal}
MonthArgs == {NullInt} \cup 0..(MonthOf(MaxDay) + 1)

\* The states the bounded clock may take.
ClockInBounds(t) ==
    /\ DateOf(t) <= MaxDay
    /\ t % MsPerDay <= MaxHalfMinutes * MsPerHalfMinute

---------------------------------------------------------------------------
(* The actions: one CLI invocation each *)

\* The invocation leaves the persistent state R.world and the record R.out.
Leaves(R) ==
    /\ ClockInBounds(R.world.clock)
    /\ Cardinality(R.world.tasks) <= MaxTasks
    /\ sessions' = R.world.sessions
    /\ tasks' = R.world.tasks
    /\ config' = R.world.config
    /\ marker' = R.world.marker
    /\ clock' = R.world.clock
    /\ last' = R.out

cmd_start == \E task \in TaskArgs, duration \in DurationArgs :
    Leaves(Start(World, task, duration))

cmd_complete == Leaves(Complete(World))

cmd_interrupt == \E reason \in ReasonArgs : Leaves(Interrupt(World, reason))

cmd_today == Leaves(Today(World))

cmd_heatmap == \E month \in MonthArgs : Leaves(Heatmap(World, month))

cmd_task == \E task_command \in {"add", "list"}, name \in NameArgs :
    /\ task_command = "list" => name = NoneStr
    /\ Leaves(TaskCmd(World, task_command, name))

cmd_config == \E value \in ValueArgs : Leaves(ConfigCmd(World, value))

\* Time passes between invocations.
Tick ==
    /\ ClockInBounds(clock + MsPerHalfMinute)
    /\ clock' = clock + MsPerHalfMinute
    /\ UNCHANGED <<sessions, tasks, config, marker, last>>

\* init_db on a fresh data directory: empty tables, daily_goal '8', no marker.
Init ==
    /\ sessions = {}
    /\ tasks = {}
    /\ config = GoalText(DefaultGoal)
    /\ marker = NoMarker
    /\ clock = 0
    /\ last = Call("none", 0, FALSE)

Next ==
    \/ cmd_start
    \/ cmd_complete
    \/ cmd_interrupt
    \/ cmd_today
    \/ cmd_heatmap
    \/ cmd_task
    \/ cmd_config
    \/ Tick

Spec == Init /\ [][Next]_vars

---------------------------------------------------------------------------
(* The handlers on a populated store.  InitStore draws the database and    *)
(* the marker file from bounded sets of well-formed contents: finished     *)
(* rows of yesterday and today as cmd_complete and cmd_interrupt leave     *)
(* them, at most one open row, named by the marker, and a task that some   *)
(* rows reference, with the totals of its completed rows.  The ids are     *)
(* integers, which the INTEGER PRIMARY KEY column can hold.  The empty     *)
(* tables of a fresh data directory are among the drawn stores.            *)

StoreYesterday == MaxDay - 1
StoreToday == MaxDay

\* The time of the first invocation on the drawn store.
StoreClock == StoreToday * MsPerDay + MaxHalfMinutes * MsPerHalfMinute

DrawnTaskId == generate_task_id(0)

DrawnRowId(day, kind, i) ==
    IdValue("", 100 * day + 10 * (CASE kind = "completed" -> 1
                                    [] kind = "interrupted" -> 2
                                    [] OTHER -> 3) + i)

\* Row i of a day and kind; the first row of each day and kind references
\* the task ref (NullId when there is no task).
DrawnSession(day, kind, i, ref) ==
    LET start == day * MsPerDay + i * MsPerSecond
        minutes == i % 2
        row == NewSession(DrawnRowId(day, kind, i), start, DefaultDuration,
                          IF i = 1 THEN ref ELSE NullId)
        ended == [row EXCEPT !.end_time = start + minutes * MsPerMinute + MsPerSecond,
                             !.actual_duration = minutes]
    IN CASE kind = "completed" -> [ended EXCEPT !.completed = 1]
         [] kind = "interrupted" -> [ended EXCEPT !.interruption_reason = "phone"]
         [] OTHER -> [row EXCEPT !.start_time = day * MsPerDay]

DrawnSessions(cy, ct, it, open, ref) ==
    {DrawnSession(StoreYesterday, "completed", i, ref) : i \in 1..cy}
    \cup {DrawnSession(StoreToday, "completed", i, ref) : i \in 1..ct}
    \cup {DrawnSession(StoreToday, "interrupted", i, ref) : i \in 1..it}
    \cup {DrawnSession(StoreToday, "open", i, ref) : i \in 1..(IF open THEN 1 ELSE 0)}

\* The marker cmd_start writes for a row.
MarkerFor(row, task_name) ==
    [exists |-> TRUE, id |-> row.id, start_time |-> row.start_time,
     duration |-> row.planned_duration, task_id |-> row.task_id,
     task_name |-> task_name]

InitStore ==
    \E cy \in 0..MaxCompletedPerDay, ct \in 0..MaxCompletedPerDay,
       it \in 0..MaxOtherPerDay, open \in BOOLEAN, hasTask \in BOOLEAN,
       goal \in 1..MaxGoal :
        LET ref == IF hasTask THEN DrawnTaskId ELSE NullId
            rows == DrawnSessions(cy, ct, it, open, ref)
            credited == {r \in rows : r.task_id = ref /\ r.completed = 1}
        IN /\ sessions = rows
           /\ tasks = IF hasTask
                      THEN {[NewTask(DrawnTaskId, "A") EXCEPT
                               !.completed_pomodoros = Cardinality(credited),
                               !.total_minutes = SumOver(credited, "actual_duration")]}
                      ELSE {}
           /\ config = GoalText(goal)
           /\ marker = IF open
                       THEN MarkerFor(DrawnSession(StoreToday, "open", 1, ref),
                                      IF hasTask THEN "A" ELSE NoneStr)
                       ELSE NoMarker
           /\ clock = StoreClock
           /\ last = Call("none", StoreClock, open)

NextStore ==
    \/ cmd_start
    \/ cmd_complete
    \/ cmd_interrupt
    \/ cmd_today
    \/ cmd_heatmap
    \/ cmd_task

SpecStore == InitStore /\ [][NextStore]_vars

---------------------------------------------------------------------------
(* Properties *)

\* The session rows with no end timestamp.
OpenSessions == {r \in sessions : r.end_time = NullInt}

\* The number of "full" cells of a progress bar.
FullCells(bar) == Cardinality({i \in 1..Len(bar) : bar[i] = "full"})

\* C1: after any sequence of start, complete and interrupt invocations at
\* most one session row has no end timestamp; a start issued while a session
\* is active does not leave two sessions open.
C1_AtMostOneOpenSession == Cardinality(OpenSessions) <= 1

\* A start was issued while a session was active, and one row is open.
C1_Witness ==
    /\ last.cmd = "start"
    /\ last.had_marker
    /\ Cardinality(OpenSessions) = 1

\* C2: a manual start with no active session followed by complete ends with
\* the marker absent and that session's row completed, with an end timestamp
\* and actual_duration the whole minutes elapsed, which is >= 0.
C2_StartThenComplete ==
    [][(/\ last.cmd = "start"
        /\ ~last.had_marker
        /\ last.duration = 0
        /\ last'.cmd = "complete")
       => (/\ ~marker'.exists
           /\ \E r \in sessions' :
                /\ r.id = last.session_id
                /\ r.completed = 1
                /\ r.end_time = last'.now
                /\ r.actual_duration = (last'.now - last.now) \div MsPerMinute
                /\ r.actual_duration >= 0)]_vars

\* C3: complete or interrupt with no marker present, and task add with an
\* empty name, change no row of sessions, tasks or config and create no
\* marker.
C3_GuardedFailuresChangeNothing ==
    [][(\/ last'.cmd \in {"complete", "interrupt"} /\ ~marker.exists
        \/ last'.cmd = "task_add" /\ ~Truthy(last'.name))
       => UNCHANGED <<sessions, tasks, config, marker>>]_vars

\* complete was invoked with no marker on a populated database.
C3_Witness ==
    /\ last.cmd = "complete"
    /\ ~last.had_marker
    /\ sessions # {}
    /\ tasks # {}

\* C4: every task's completed-pomodoro count is the number of completed
\* session rows that reference it, and its total minutes the sum of their
\* actual_duration; interrupted and open sessions contribute nothing.
C4_TaskTotals ==
    \A t \in tasks :
        LET credited == {r \in sessions : r.task_id = t.id /\ r.completed = 1}
        IN /\ t.completed_pomodoros = Cardinality(credited)
           /\ t.total_minutes = SumOver(credited, "actual_duration")

\* complete has credited a task that also has an interrupted row.
C4_Witness ==
    /\ last.cmd = "complete"
    /\ last.had_marker
    /\ \E t \in tasks :
         /\ t.completed_pomodoros >= 2
         /\ t.total_minutes >= 2
         /\ \E r \in sessions : r.task_id = t.id /\ r.interruption_reason # NoneStr

\* C5: interrupt with a marker present sets the marked session's end
\* timestamp and actual_duration, leaves completed = false, stores the reason
\* (or "Unknown"), deletes the marker and changes no task row and no other
\* session row.
C5_InterruptEffect ==
    [][(last'.cmd = "interrupt" /\ marker.exists)
       => (/\ sessions' =
                {IF r.id = marker.id
                 THEN [r EXCEPT
                         !.end_time = clock,
                         !.actual_duration =
                             (clock - marker.start_time) \div MsPerMinute,
                         !.completed = 0,
                         !.interruption_reason =
                             IF last'.reason \in {NoneStr, ""}
                             THEN "Unknown" ELSE last'.reason]
                 ELSE r : r \in sessions}
           /\ \A r \in sessions' : r.id = marker.id => r.interruption_reason # NoneStr
           /\ ~marker'.exists
           /\ tasks' = tasks)]_vars

\* interrupt without a reason has ended the marked session of a task.
C5_Witness ==
    /\ last.cmd = "interrupt"
    /\ last.had_marker
    /\ last.reason = NoneStr
    /\ ~marker.exists
    /\ tasks # {}
    /\ \E r \in sessions :
         /\ r.interruption_reason = "Unknown"
         /\ r.completed = 0
         /\ r.actual_duration = 1
         /\ r.task_id # NullId

\* C6: a start with duration > 0 leaves its session completed and the marker
\* absent; a start with duration 0 leaves its session open and the marker
\* present.
C6_StartOutcome ==
    last.cmd = "start"
    => IF last.duration > 0
       THEN /\ ~marker.exists
            /\ \E r \in sessions : r.id = last.session_id /\ r.completed = 1
       ELSE /\ marker.exists
            /\ \E r \in sessions : r.id = last.session_id /\ r.end_time = NullInt

\* C7: for a positive goal g and an in-month day with c completed sessions
\* the heatmap marker is: c = 0 no sessions, 0 < c < g div 2 started,
\* g div 2 <= c < g halfway, c >= g goal achieved.
C7_FloorThresholds ==
    (last.cmd = "heatmap" /\ last.raised = "" /\ last.report.daily_goal >= 1)
    => \A d \in DOMAIN last.report.marks :
         LET g == last.report.daily_goal
             day == last.report.month * DaysInMonth + d - 1
             c == Cardinality({r \in sessions : r.date = day /\ r.completed = 1})
         IN last.report.marks[d] =
              IF c = 0 THEN "no_session"
              ELSE IF c < g \div 2 THEN "started"
              ELSE IF c < g THEN "halfway"
              ELSE "goal_achieved"

\* C8: today's completed count is the number of rows of the current date
\* with completed true, and for a goal g >= 1 the bar has 20 cells of which
\* floor(20 * min(count / g, 1)) are filled.
C8_TodayCountAndBar ==
    (last.cmd = "today" /\ last.raised = "" /\ last.report.daily_goal >= 1)
    => LET g == last.report.daily_goal
           c == Cardinality({r \in sessions :
                               r.date = DateOf(last.now) /\ r.completed = 1})
       IN /\ last.report.completed_count = c
          /\ Len(last.report.bar) = 20
          /\ FullCells(last.report.bar) = (20 * Min(c, g)) \div g

\* today with goal 3 and one completed session among today's rows: 6 cells.
C8_Witness ==
    /\ last.cmd = "today"
    /\ last.report.daily_goal = 3
    /\ last.report.completed_count = 1
    /\ FullCells(last.report.bar) = 6
    /\ \E r \in sessions : r.date = DateOf(last.now) /\ r.completed = 0
    /\ \E r \in sessions : r.date # DateOf(last.now) /\ r.completed = 1

\* C9: the marker is present exactly when a session is active: a present
\* marker names an existing row with no end timestamp, and with no marker no
\* row lacks an end timestamp.
C9_MarkerIffActive ==
    /\ marker.exists =>
         \E r \in sessions : r.id = marker.id /\ r.end_time = NullInt
    /\ ~marker.exists => OpenSessions = {}

\* interrupt has removed the marker and no row is open.
C9_Witness ==
    /\ last.cmd = "interrupt"
    /\ last.had_marker
    /\ ~marker.exists
    /\ sessions # {}
    /\ OpenSessions = {}

\* C10: a start with a task name resolves it by exact match or creates it:
\* afterwards a task of that name exists and the session the start created
\* references a task of that name; a start without a task name stores a null
\* task reference in its session.
C10_StartResolvesTask ==
    last.cmd = "start"
    => \E r \in sessions :
         /\ r.id = last.session_id
         /\ IF Truthy(last.task)
            THEN \E t \in tasks : t.name = last.task /\ t.id = r.task_id
            ELSE r.task_id = NullId

\* The ids of the rows marked completed.
CompletedIds(rows) == {r.id : r \in {x \in rows : x.completed = 1}}

====
